---- MODULE Spec2Model ----
(***************************************************************************)
(* Model of nupic.research.frameworks.vernon.run_experiment.trainables:    *)
(* BaseTrainable (worker pool creation with retries, the _train step,      *)
(* _save/_restore/_stop) and its subclasses, driving a pool of ray remote  *)
(* experiment actors.                                                      *)
(*                                                                         *)
(* The driver is one sequential process; its position is pc.  A batch of   *)
(* remote calls is issued in one driver action (the .remote() loop), each  *)
(* actor executes its pending calls in its own WorkerRun steps, and the    *)
(* driver continues in a Collect action (ray_utils.check_for_failure or    *)
(* ray.get).  A remote call ends "ok", "died" (the actor process is dead:  *)
(* ray raises RayActorError) or "raised" (the remote method raised: ray    *)
(* raises RayTaskError).                                                   *)
(***************************************************************************)
EXTENDS Integers, Sequences, FiniteSets, TLC

(* ------------------------------ bounds -------------------------------- *)
MaxWorld == 2        \* largest num_gpus / num_cpus in a configuration
MaxRetries == 2      \* largest configured max_retries
MaxIter == 3         \* steps are started only while iteration < MaxIter
MaxFaults == 1       \* remote-call failures injected after the pool is built
MaxObs == 2          \* steps are started only while fewer observations were sent

(* The experiment's configured number of epochs/tasks (config["epochs"]).  *)
Epochs == 2

NoValue == "None"

VARIABLES
    variant,      \* the Trainable subclass in use
    config,       \* the config dict handed to _setup (mutated by _setup)
    pc,           \* position of the driver
    procs,        \* self.procs: sequence of actor handles
    handles,      \* number of actor handles created so far (ids 1..handles)
    live,         \* handles whose actor process is running
    wcfg,         \* handle -> worker_config passed to setup_experiment
    wstate,       \* handle -> experiment state held by the actor
    queue,        \* handle -> remote calls submitted and not yet executed
    reply,        \* handle -> outcome of its call in the batch being awaited
    max_retries,  \* self.max_retries
    attempt,      \* loop variable i of _create_workers
    sleeps,       \* durations passed to time.sleep, in order
    restore_checkpoint_file,  \* self.restore_checkpoint_file (its pickled state)
    iteration,    \* self._iteration
    first_run,    \* self._first_run
    restored,     \* self._restored
    pre_experiment_result,    \* local of _train
    ret,          \* what the last driver call returned or raised
    ckpt,         \* the last state returned by _save
    experiment,   \* DebugTrainable.experiment (in-process instance)
    faults,       \* failures injected after pool creation
    sigopt,       \* SigOptSupervisedTrainable: self.sigopt, self.suggestion,
                  \* self.epochs, self.metric_names, and the observations sent
    hist          \* bookkeeping of what has happened (read by the properties only)

vars == <<variant, config, pc, procs, handles, live, wcfg, wstate, queue, reply,
          max_retries, attempt, sleeps, restore_checkpoint_file, iteration,
          first_run, restored, pre_experiment_result, ret, ckpt, experiment,
          faults, sigopt, hist>>

(* ------------------------------ helpers ------------------------------- *)
Range(s) == {s[k] : k \in 1..Len(s)}

Max(a, b) == IF a >= b THEN a ELSE b

RECURSIVE Pow2(_)
Pow2(n) == IF n = 0 THEN 1 ELSE 2 * Pow2(n - 1)

\* dict.get(key, default)
Get(d, key, default) == IF key \in DOMAIN d THEN d[key] ELSE default

\* dict with key set to value (d[key] = value)
Put(d, key, value) ==
    [k \in (DOMAIN d) \cup {key} |-> IF k = key THEN value ELSE d[k]]

\* dict without key (d.pop(key, None))
Drop(d, key) == [k \in (DOMAIN d) \ {key} |-> d[k]]

Outcomes == {"ok", "died", "raised"}

EmptyDict == [k \in {} |-> TRUE]

Variants == {"supervised", "continual", "sigopt", "debug"}

\* The pool variants derive from BaseTrainable; DebugTrainable does not.
PoolVariants == {"supervised", "continual", "sigopt"}

\* States found in a checkpoint file: an experiment stopped before or at
\* its last epoch.
Blobs == [epoch : 0..Epochs]
NoState == [epoch |-> -1]

(* --------------------------- configuration ---------------------------- *)
DefaultMaxRetries == 3

\* The entries every configuration of the model has.  num_cpus is read only
\* when num_gpus is 0, so it is varied only there.
BaseConfigs ==
    { c \in [num_gpus : 0..MaxWorld, num_cpus : 1..MaxWorld,
             max_retries : (-1)..MaxRetries, epochs : {Epochs}] :
        c.num_gpus = 0 \/ c.num_cpus = 1 }

\* Optional entries of a configuration.
WithRestore(c, f) ==
    IF f = NoState THEN c ELSE Put(c, "restore_checkpoint_file", f)

WithCheckpointAtInit(c, b) ==
    IF b THEN Put(c, "checkpoint_at_init", TRUE) ELSE c

\* Configurations that leave max_retries to its default.
DefaultRetryConfigs ==
    { Drop(c, "max_retries") : c \in {b \in BaseConfigs : b.max_retries = 0} }

\* Configurations handed to _setup.
Configs ==
    { WithCheckpointAtInit(WithRestore(c, f), b) :
        c \in BaseConfigs, f \in {NoState} \cup Blobs, b \in BOOLEAN }
      \cup DefaultRetryConfigs

\* The metrics entry of a "sigopt_config" block: a list of dicts with a name.
Metric(name) == [name |-> name]
MetricLists ==
    { <<Metric("mean_accuracy"), Metric("mean_loss")>>,
      <<Metric("mean_accuracy"), Metric("top5")>>,
      <<Metric("mean_loss")>> }

\* "sigopt_config" blocks: with a metrics entry, or without one.
SigOptBlocks ==
    { Put(EmptyDict, "metrics", m) : m \in MetricLists }
        \cup { Put(EmptyDict, "project", "p") }

\* A configuration with a tuning block b and experiment id e; the id may
\* be absent ("absent") or None.
WithSigOpt(c, b, e) ==
    IF e = "absent" THEN Put(c, "sigopt_config", b)
    ELSE Put(Put(c, "sigopt_config", b), "sigopt_experiment_id", e)

SigOptConfigs(cs) ==
    { WithSigOpt(c, b, e) : c \in cs, b \in SigOptBlocks,
                            e \in {"absent", NoValue, "exp1"} }

\* A pool sized by num_cpus whatever num_gpus says.
WorldSizeCpusOnly(c) == Get(c, "num_cpus", 1)

\* _create_workers, lines 197-211: number of distributed processes.
WorldSize(c) ==
    IF Get(c, "num_gpus", 0) > 0 THEN Get(c, "num_gpus", 0)
                                 ELSE Get(c, "num_cpus", 1)

\* max_retries as configured, negative or not.
ClampRetriesNoClamp(c) == Get(c, "max_retries", DefaultMaxRetries)

\* _setup, line 88.
ClampRetries(c) == Max(Get(c, "max_retries", DefaultMaxRetries), 0)

\* A backoff that grows linearly.
BackoffLinear(i) == 2 * i

\* time.sleep(2 ** i), line 252.
BackoffSeconds(i) == Pow2(i)

NoCfg == [rank |-> -1]
\* The outcome of a call on the driver: the record it returned, or the
\* exception it raised with the fields formatted into its message.
NoMsg == EmptyDict
NoRet ==
    [op |-> "none", status |-> "none", rec |-> EmptyDict, error |-> "none",
     msg |-> NoMsg]
Returned(op, rec) ==
    [op |-> op, status |-> "returned", rec |-> rec, error |-> "none",
     msg |-> NoMsg]
RaisedWith(op, error, msg) ==
    [op |-> op, status |-> "raised", rec |-> EmptyDict, error |-> error,
     msg |-> msg]
Raised(op, error) == RaisedWith(op, error, NoMsg)

\* self._trial_info.trial_name
TrialName == "trial_1"

\* err_msg of _train (lines 157-158): the trial name, self.iteration and a
\* fixed text.
TrainErrMsg(it) ==
    [trial |-> TrialName, iteration |-> it,
     text |-> "One of the remote workers failed during training"]

\* err_msg of _create_workers (line 255): a fixed text around
\* self.max_retries.
CreateErrMsg(retries) ==
    [text |-> "Failed to create workers after retries", retries |-> retries]
FreshState == [epoch |-> 0]

\* Bookkeeping read by the properties: failed = pool-creation passes that
\* failed; rt, snap_iter, snap_states = a checkpoint taken and the driver and
\* actor states at that moment; restore, blob, iter0 = the progress of the
\* last _restore, its argument and self._iteration when it was called.
\* pre_stop = whether the step in progress (or the last one) began as the
\* first run of a restored driver whose head experiment's stop condition
\* held; disp_pre, disp_unit = calls that step submitted; unit_failed = pool
\* positions whose work-unit call of that step failed; stop_seen = the head's
\* should_stop has returned True since the last _restore; stop_before = the
\* value of stop_seen when the step in progress (or the last one) began;
\* broken = a _restore has raised on this driver; step_raised = a step has
\* raised on this driver; stepped = a step has begun; was_first = the step in
\* progress (or the last one) began with self._first_run set; poll = how the
\* stop poll of that step ended; pre_total, dups = the batches of
\* pre-experiment calls submitted and the duplicate records returned so far
\* (counted up to 2); replayed = _restore has been called after _setup;
\* passes = the passes of the retry loop of _create_workers begun;
\* reported = update_observation was called in the step in progress (or the
\* last one); suggested = the calls of get_next_suggestion made.
HistInit ==
    [failed |-> 0, rt |-> "none", snap_iter |-> 0, snap_states |-> <<>>,
     restore |-> "none", blob |-> NoState, iter0 |-> 0,
     pre_stop |-> FALSE, disp_pre |-> 0, disp_unit |-> 0, unit_failed |-> {},
     stop_seen |-> FALSE, stop_before |-> FALSE, broken |-> FALSE,
     step_raised |-> FALSE, stepped |-> FALSE, was_first |-> FALSE,
     poll |-> "none", pre_total |-> 0, dups |-> 0, replayed |-> FALSE,
     passes |-> 0, reported |-> FALSE, suggested |-> 0]

\* The bookkeeping of the last step, forgotten when another call begins.
IdleHist(h) ==
    [h EXCEPT !.pre_stop = FALSE, !.disp_pre = 0, !.disp_unit = 0,
              !.unit_failed = {}, !.stop_before = FALSE,
              !.was_first = FALSE, !.poll = "none", !.reported = FALSE]

\* The tuning state of a driver that has none (self.sigopt is None).
NoSigOpt ==
    [active |-> FALSE, suggestion |-> NoValue, epochs |-> 0,
     metric_names |-> <<>>, observations |-> <<>>]

\* A count kept up to 2.
UpTo2(n) == IF n < 2 THEN n + 1 ELSE n

\* The absent pre-experiment result (None).
NoPre == [mean_accuracy |-> -1]

\* The state after construction, for a configuration drawn from cs or, for
\* the tuning variant, a configuration of ts with a tuning block.
InitWith(cs, ts) ==
    /\ variant \in Variants
    /\ config \in cs \cup (IF variant = "sigopt" THEN SigOptConfigs(ts) ELSE {})
    /\ variant = "debug" => (config \in BaseConfigs /\ config.max_retries = 0)
    /\ pc = "new"
    /\ procs = <<>>
    /\ handles = 0
    /\ live = {}
    /\ wcfg = <<>>
    /\ wstate = <<>>
    /\ queue = <<>>
    /\ reply = <<>>
    /\ max_retries = 0
    /\ attempt = 0
    /\ sleeps = <<>>
    /\ restore_checkpoint_file = NoState
    /\ iteration = 0
    /\ first_run = FALSE
    /\ restored = FALSE
    /\ pre_experiment_result = NoPre
    /\ ret = NoRet
    /\ ckpt = NoState
    /\ experiment = NoState
    /\ faults = 0
    /\ sigopt = NoSigOpt
    /\ hist = HistInit

(* ------------------------------ actors -------------------------------- *)
\* ray.kill(w) for every w in self.procs, then self.procs = [] (lines 259-265).
KilledLive(ps) == live \ Range(ps)

\* A kill that leaves the handles in self.procs.
KillWorkersKeepsProcs ==
    /\ live' = KilledLive(procs)
    /\ queue' = [h \in DOMAIN queue |-> IF h \in Range(procs) THEN <<>> ELSE queue[h]]
    /\ procs' = procs

KillWorkers ==
    /\ live' = KilledLive(procs)
    /\ queue' = [h \in DOMAIN queue |-> IF h \in Range(procs) THEN <<>> ELSE queue[h]]
    /\ procs' = <<>>

\* Submitting one call to every handle of ps: [w.<op>.remote(arg) for w in ps].
Submitted(q, ps, op, arg) ==
    [h \in DOMAIN q |->
        IF h \in Range(ps) THEN Append(q[h], [op |-> op, arg |-> arg]) ELSE q[h]]

Awaiting(r, ps) ==
    [h \in DOMAIN r |-> IF h \in Range(ps) THEN "pending" ELSE "none"]

\* Outcomes a call executed by handle h can have: a dead actor only fails;
\* after the pool is built at most MaxFaults failures are injected.
CallOutcomes(h) ==
    IF h \notin live THEN {"died"}
    ELSE IF pc = "wait_setup" \/ pc = "create" \/ faults < MaxFaults THEN Outcomes
    ELSE {"ok"}

Injected(h, o) == h \in live /\ o # "ok" /\ pc # "wait_setup" /\ pc # "create"

\* What a remote method does to the experiment state when it completes.
Effect(call, st) ==
    CASE call.op = "setup_experiment" -> FreshState
      [] call.op \in {"run_epoch", "run_task"} -> [st EXCEPT !.epoch = @ + 1]
      [] call.op = "set_state" -> call.arg
      [] OTHER -> st

\* The position(s) of handle h in self.procs.
PoolIndex(h) == {k \in 1..Len(procs) : procs[k] = h}

\* An actor executes the oldest call submitted to it.
WorkerRun(h) ==
    /\ queue[h] # <<>>
    /\ \E o \in CallOutcomes(h) :
          /\ queue' = [queue EXCEPT ![h] = Tail(@)]
          /\ reply' = IF Len(queue[h]) = 1 THEN [reply EXCEPT ![h] = o] ELSE reply
          /\ live' = IF o = "died" THEN live \ {h} ELSE live
          /\ wstate' = IF o = "ok"
                       THEN [wstate EXCEPT ![h] = Effect(Head(queue[h]), @)]
                       ELSE wstate
          /\ faults' = IF Injected(h, o) THEN faults + 1 ELSE faults
          /\ hist' = IF o # "ok" /\ Head(queue[h]).op \in {"run_epoch", "run_task"}
                     THEN [hist EXCEPT !.unit_failed = @ \cup PoolIndex(h)]
                     ELSE hist
    /\ UNCHANGED <<variant, sigopt, config, pc, procs, handles, wcfg, max_retries, attempt,
                   sleeps, restore_checkpoint_file, iteration, first_run, restored,
                   pre_experiment_result, ret, ckpt, experiment>>

\* ray_utils.check_for_failure(status): waits for the calls one completion at a
\* time; True when all completed, False as soon as a completed call is found
\* to have hit a dead actor (RayActorError is caught); any other exception of
\* a completed call propagates to the caller.
CheckForFailure(ps) ==
    (IF \A k \in 1..Len(ps) : reply[ps[k]] = "ok" THEN {"true"} ELSE {})
    \cup (IF \E k \in 1..Len(ps) : reply[ps[k]] = "died" THEN {"false"} ELSE {})
    \cup (IF \E k \in 1..Len(ps) : reply[ps[k]] = "raised" THEN {"raise"} ELSE {})

\* ray.get(list): waits for every call, then raises the first failure in
\* list order.
AllReplied(ps) == \A k \in 1..Len(ps) : reply[ps[k]] # "pending"

FirstFailure(ps) ==
    IF \A k \in 1..Len(ps) : reply[ps[k]] = "ok" THEN "ok"
    ELSE reply[ps[CHOOSE k \in 1..Len(ps) :
                     /\ reply[ps[k]] # "ok"
                     /\ \A j \in 1..(k - 1) : reply[ps[j]] = "ok"]]

(* ------------------------- _setup and the pool ------------------------- *)
\* SigOptSupervisedTrainable._process_config acts on a config that has a
\* "sigopt_config" entry (line 355); BaseTrainable's is a no-op.
TunesConfig(c) == variant = "sigopt" /\ "sigopt_config" \in DOMAIN c

\* assert config.get("sigopt_experiment_id", None) is not None (line 356).
SigOptIdPresent(c) == Get(c, "sigopt_experiment_id", NoValue) # NoValue

\* The tuning service's suggestion and what it does to the config
\* (get_next_suggestion, update_config_with_suggestion).
NextSuggestion == "suggestion"
UpdateConfigWithSuggestion(c, sg) == Put(c, "suggested", sg)

\* The names of the configured metrics (lines 381-383).
MetricNames(c) ==
    [k \in 1..Len(c.sigopt_config.metrics) |-> c.sigopt_config.metrics[k].name]

\* A check that accepts any list of metrics.
MetricsValidAnyName(c) == "metrics" \in DOMAIN c.sigopt_config

\* The assertions on the metrics (lines 380, 384).
MetricsValid(c) ==
    /\ "metrics" \in DOMAIN c.sigopt_config
    /\ "mean_accuracy" \in Range(MetricNames(c))

\* Whether _process_config ends with an AssertionError.
ProcessConfigFails(c) ==
    TunesConfig(c) /\ (~SigOptIdPresent(c) \/ ~MetricsValid(c))

\* A _process_config that leaves the config as it was.
ProcessConfigDropsSuggestion(c) == c

\* The config _process_config leaves (lines 280-281, 353-373): the
\* suggestion is merged in once the experiment id has been checked.
ProcessConfig(c) ==
    IF TunesConfig(c) /\ SigOptIdPresent(c)
    THEN UpdateConfigWithSuggestion(c, NextSuggestion)
    ELSE c

\* self.sigopt, self.suggestion, self.epochs and self.metric_names as
\* _process_config leaves them (lines 354, 364-383).
SigOptAfterConfig(c) ==
    IF TunesConfig(c) /\ SigOptIdPresent(c)
    THEN [active |-> TRUE, suggestion |-> NextSuggestion, epochs |-> c.epochs,
          metric_names |-> IF "metrics" \in DOMAIN c.sigopt_config
                           THEN MetricNames(c) ELSE <<>>,
          observations |-> <<>>]
    ELSE NoSigOpt

\* The calls of get_next_suggestion _process_config makes (line 372): one,
\* once the experiment id has been checked.
SuggestionsRequested(c) ==
    IF TunesConfig(c) /\ SigOptIdPresent(c) THEN 1 ELSE 0

\* BaseTrainable._setup up to the retry loop of _create_workers
\* (lines 66-91, 197-215); a loop over an empty range(1 + self.max_retries)
\* goes straight to its else clause (lines 253-257).
Setup ==
    /\ pc = "new"
    /\ variant \in PoolVariants
    /\ restore_checkpoint_file' = Get(config, "restore_checkpoint_file", NoState)
    /\ max_retries' = ClampRetries(config)
    /\ LET c == Drop(Put(config, "logdir", "logdir"), "restore_checkpoint_file")
       IN /\ config' = ProcessConfig(c)
          /\ sigopt' = SigOptAfterConfig(c)
          /\ hist' = [hist EXCEPT !.suggested = @ + SuggestionsRequested(c)]
          /\ IF ProcessConfigFails(c)
             THEN /\ pc' = "setup_raised"
                  /\ ret' = Raised("process_config", "AssertionError")
             ELSE IF 0 < 1 + max_retries'
             THEN /\ pc' = "create"
                  /\ UNCHANGED ret
             ELSE /\ pc' = "setup_raised"
                  /\ ret' = RaisedWith("create_workers", "RuntimeError",
                                        CreateErrMsg(max_retries'))
    /\ attempt' = 0
    /\ UNCHANGED <<variant, procs, handles, live, wcfg, wstate, queue, reply, sleeps,
                   iteration, first_run, restored, pre_experiment_result, ckpt,
                   experiment, faults>>

\* The address of the node hosting an actor and a free port on it
\* (get_node_ip, get_free_port): the actor's identity stands for both.
NodeIp(h) == h
FreePort(h) == h

\* "tcp://{}:{}".format(ip, port), lines 223-226.
DistUrl(c, h) == <<"tcp", NodeIp(h), Get(c, "dist_port", FreePort(h))>>

\* Per-worker entries whose ranks count from 1.
WorkerConfigRankFromOne(c, url, ws, rank) ==
    Put(Put(Put(Put(c, "distributed", TRUE), "dist_url", url),
            "world_size", ws), "rank", rank + 1)

\* copy.deepcopy(config) with the per-worker entries, lines 231-235.
WorkerConfig(c, url, ws, rank) ==
    Put(Put(Put(Put(c, "distributed", TRUE), "dist_url", url),
            "world_size", ws), "rank", rank)

\* The driver's config after a loop that writes the per-worker entries
\* into the config itself instead of a copy.
ConfigAfterPassNoCopy(c, url, ws) == WorkerConfig(c, url, ws, ws - 1)

\* The driver's config after the loop of lines 230-236: the entries are
\* written into copy.deepcopy(config) (line 231), never into config.
ConfigAfterPass(c, url, ws) == c

\* The handles of a new pool of ws actors.
NewProcs(ws) == [k \in 1..ws |-> handles + k]

\* One pass of the retry loop up to the submission of the setup calls
\* (lines 215-239).  The two ray.get calls on the head actor are not guarded:
\* their failure leaves _create_workers and _setup as an exception.
CreateAttempt ==
    /\ pc = "create"
    /\ LET ws == WorldSize(config)
           ps == NewProcs(ws)
           head == ps[1]
           all == 1..(handles + ws)
       IN /\ procs' = ps
          /\ handles' = handles + ws
          /\ wstate' = [h \in all |-> IF h \in Range(ps) THEN FreshState ELSE wstate[h]]
          /\ \E o \in Outcomes :
                IF o = "ok"
                THEN /\ live' = live \cup Range(ps)
                     /\ wcfg' = [h \in all |->
                                   IF h \in Range(ps)
                                   THEN WorkerConfig(config, DistUrl(config, head),
                                                     ws, h - handles - 1)
                                   ELSE wcfg[h]]
                     /\ queue' = Submitted([h \in all |-> <<>>], ps,
                                           "setup_experiment", NoState)
                     /\ reply' = Awaiting([h \in all |-> "none"], ps)
                     /\ config' = ConfigAfterPass(config, DistUrl(config, head), ws)
                     /\ pc' = "wait_setup"
                     /\ hist' = [hist EXCEPT !.passes = @ + 1]
                     /\ UNCHANGED ret
                ELSE /\ live' = (live \cup Range(ps)) \ (IF o = "died" THEN {head} ELSE {})
                     /\ config' = config
                     /\ wcfg' = [h \in all |-> IF h \in Range(ps) THEN NoCfg ELSE wcfg[h]]
                     /\ queue' = [h \in all |-> <<>>]
                     /\ reply' = [h \in all |-> "none"]
                     /\ pc' = "setup_raised"
                     /\ ret' = Raised("create_workers",
                                      IF o = "died" THEN "RayActorError"
                                                    ELSE "RayTaskError")
                     /\ hist' = [hist EXCEPT !.failed = @ + 1, !.passes = @ + 1]
    /\ UNCHANGED <<variant, sigopt, max_retries, attempt, sleeps,
                   restore_checkpoint_file, iteration, first_run, restored,
                   pre_experiment_result, ckpt, experiment, faults>>

\* The end of a pass of the retry loop (lines 241-257).
CollectSetup ==
    /\ pc = "wait_setup"
    /\ \E r \in CheckForFailure(procs) :
          CASE r = "true" ->
                  /\ pc' = "created"
                  /\ UNCHANGED <<procs, live, queue, sleeps, attempt, ret, hist>>
            [] r = "false" ->
                  /\ KillWorkers
                  /\ sleeps' = Append(sleeps, BackoffSeconds(attempt))
                  /\ attempt' = attempt + 1
                  /\ hist' = [hist EXCEPT !.failed = @ + 1]
                  /\ IF attempt + 1 < 1 + max_retries
                     THEN pc' = "create" /\ UNCHANGED ret
                     ELSE /\ pc' = "setup_raised"
                          /\ ret' = RaisedWith("create_workers", "RuntimeError",
                                                CreateErrMsg(max_retries))
            [] r = "raise" ->
                  /\ pc' = "setup_raised"
                  /\ ret' = Raised("create_workers", "RayTaskError")
                  /\ hist' = [hist EXCEPT !.failed = @ + 1]
                  /\ UNCHANGED <<procs, live, queue, sleeps, attempt>>
    /\ UNCHANGED <<variant, sigopt, config, handles, wcfg, wstate, reply, max_retries,
                   restore_checkpoint_file, iteration, first_run, restored,
                   pre_experiment_result, ckpt, experiment, faults>>

\* A call the driver makes and waits for on its own (ray.get(w.f.remote())).
LiveAfter(h, o) == IF o = "died" THEN live \ {h} ELSE live
FaultsAfter(h, o) == IF Injected(h, o) THEN faults + 1 ELSE faults
ErrorOf(o) == IF o = "died" THEN "RayActorError" ELSE "RayTaskError"

\* get_state / get_current_epoch of an experiment.
GetState(st) == st
GetCurrentEpoch(st) == st.epoch

\* The states held by the pool, in pool order.
PoolStates == [k \in 1..Len(procs) |-> wstate[procs[k]]]

\* A choice that looks at checkpoint_at_init before the restore file.
InitialPathSnapshotFirst(file, c) ==
    IF Get(c, "checkpoint_at_init", FALSE) THEN "snapshot"
    ELSE IF file # NoState THEN "restore"
    ELSE "none"

\* What _setup does once the pool is built (lines 95, 101): restore from the
\* checkpoint file, else save the initial state if asked to, else nothing.
InitialPath(file, c) ==
    IF file # NoState THEN "restore"
    ELSE IF Get(c, "checkpoint_at_init", FALSE) THEN "snapshot"
    ELSE "none"

\* _setup after _create_workers returned (lines 93-105); with a checkpoint
\* file, up to the submission of the set_state calls of _restore (185-186).
PostCreate ==
    /\ pc = "created"
    /\ restored' = FALSE
    /\ IF InitialPath(restore_checkpoint_file, config) = "restore"
       THEN /\ queue' = Submitted(queue, procs, "set_state", restore_checkpoint_file)
            /\ reply' = Awaiting(reply, procs)
            /\ pc' = "wait_restore_init"
            /\ hist' = [hist EXCEPT !.restore = "pending",
                                    !.blob = restore_checkpoint_file,
                                    !.iter0 = iteration]
            /\ UNCHANGED <<live, faults, first_run, ret, ckpt>>
       ELSE IF InitialPath(restore_checkpoint_file, config) = "snapshot"
       THEN \E o \in CallOutcomes(procs[1]) :
              /\ live' = LiveAfter(procs[1], o)
              /\ faults' = FaultsAfter(procs[1], o)
              /\ IF o = "ok"
                 THEN /\ ckpt' = GetState(wstate[procs[1]])
                      /\ first_run' = TRUE
                      /\ pc' = "ready"
                      /\ ret' = Returned("setup", EmptyDict)
                 ELSE /\ pc' = "setup_raised"
                      /\ ret' = Raised("setup", ErrorOf(o))
                      /\ UNCHANGED <<ckpt, first_run>>
              /\ UNCHANGED <<queue, reply, hist>>
       ELSE /\ first_run' = TRUE
            /\ pc' = "ready"
            /\ ret' = Returned("setup", EmptyDict)
            /\ UNCHANGED <<live, faults, queue, reply, ckpt, hist>>
    /\ UNCHANGED <<variant, sigopt, config, procs, handles, wcfg, wstate, max_retries, attempt,
                   sleeps, restore_checkpoint_file, iteration, pre_experiment_result,
                   experiment>>

\* Waiting for the head's acknowledgement only.
RestoreWaitedHeadOnly(ps) == IF ps = <<>> THEN ps ELSE <<ps[1]>>

\* The handles whose set_state calls the ray.get of _restore waits for
\* (line 186).
RestoreWaited(ps) == ps

\* A _restore that resets the counter instead of reading the epoch.
RestoredIterationZero(st) == 0

\* The iteration _restore leaves in self._iteration (line 189).
RestoredIteration(st) == GetCurrentEpoch(st)

\* _restore from the ray.get of the set_state calls on (lines 186-191), and
\* the rest of _setup when called from there (lines 99-105).
RestoreCollect ==
    /\ pc \in {"wait_restore_init", "wait_restore"}
    /\ AllReplied(RestoreWaited(procs))
    /\ LET init == pc = "wait_restore_init"
           op == IF init THEN "setup" ELSE "restore"
           bad == IF init THEN "setup_raised" ELSE "ready"
       IN IF FirstFailure(RestoreWaited(procs)) # "ok"
          THEN /\ pc' = bad
               /\ ret' = Raised(op, ErrorOf(FirstFailure(RestoreWaited(procs))))
               /\ hist' = [hist EXCEPT !.restore = "failed", !.rt = "none", !.broken = TRUE,
                                       !.snap_states = <<>>, !.snap_iter = 0]
               /\ UNCHANGED <<live, faults, iteration, restored, first_run>>
          ELSE IF procs = <<>>
          THEN /\ pc' = bad
               /\ ret' = Raised(op, "IndexError")
               /\ hist' = [hist EXCEPT !.restore = "failed", !.rt = "none", !.broken = TRUE,
                                       !.snap_states = <<>>, !.snap_iter = 0]
               /\ UNCHANGED <<live, faults, iteration, restored, first_run>>
          ELSE \E o \in CallOutcomes(procs[1]) :
                 /\ live' = LiveAfter(procs[1], o)
                 /\ faults' = FaultsAfter(procs[1], o)
                 /\ IF o = "ok"
                    THEN /\ iteration' = RestoredIteration(wstate[procs[1]])
                         /\ restored' = (init \/ restored)
                         /\ first_run' = (init \/ first_run)
                         /\ pc' = "ready"
                         /\ ret' = Returned(op, EmptyDict)
                         /\ hist' = [hist EXCEPT
                                       !.restore = "done",
                                       !.rt = IF @ = "restoring" THEN "done" ELSE "none"]
                    ELSE /\ pc' = bad
                         /\ ret' = Raised(op, ErrorOf(o))
                         /\ hist' = [hist EXCEPT !.restore = "failed", !.rt = "none", !.broken = TRUE,
                                                 !.snap_states = <<>>, !.snap_iter = 0]
                         /\ UNCHANGED <<iteration, restored, first_run>>
    /\ UNCHANGED <<variant, sigopt, config, procs, handles, wcfg, wstate, queue, reply,
                   max_retries, attempt, sleeps, restore_checkpoint_file,
                   pre_experiment_result, ckpt, experiment>>

\* BaseTrainable._save (lines 177-181): the state of the first actor.
SavedFrom(ps) == ps[1]

Save ==
    /\ pc = "ready"
    /\ variant \in PoolVariants
    /\ IF procs = <<>>
       THEN /\ ret' = Raised("checkpoint", "IndexError")
            /\ hist' = IdleHist(hist)
            /\ UNCHANGED <<live, faults, ckpt>>
       ELSE \E o \in CallOutcomes(SavedFrom(procs)) :
              /\ live' = LiveAfter(SavedFrom(procs), o)
              /\ faults' = FaultsAfter(SavedFrom(procs), o)
              /\ IF o = "ok"
                 THEN /\ ckpt' = GetState(wstate[SavedFrom(procs)])
                      /\ ret' = Returned("checkpoint", EmptyDict)
                      /\ hist' = [IdleHist(hist) EXCEPT
                                      !.rt = "armed", !.snap_iter = iteration,
                                      !.snap_states = PoolStates,
                                      !.restore = "none", !.blob = NoState,
                                      !.iter0 = 0]
                 ELSE /\ ret' = Raised("checkpoint", ErrorOf(o))
                      /\ hist' = IdleHist(hist)
                      /\ UNCHANGED ckpt
    /\ UNCHANGED <<variant, sigopt, config, pc, procs, handles, wcfg, wstate, queue, reply,
                   max_retries, attempt, sleeps, restore_checkpoint_file, iteration,
                   first_run, restored, pre_experiment_result, experiment>>

\* The handles _restore sends the state to (line 186).
RestoreTargets(ps) == ps

\* BaseTrainable._restore(state) up to the submission of the set_state calls
\* (lines 185-186); the state is one returned by an earlier _save.
Restore ==
    /\ pc = "ready"
    /\ variant \in PoolVariants
    /\ ckpt # NoState
    /\ queue' = Submitted(queue, RestoreTargets(procs), "set_state", ckpt)
    /\ reply' = Awaiting(reply, RestoreTargets(procs))
    /\ pc' = "wait_restore"
    /\ ret' = NoRet
    /\ hist' = [IdleHist(hist) EXCEPT
                    !.restore = "pending", !.blob = ckpt, !.iter0 = iteration,
                    !.rt = IF @ = "armed" THEN "restoring" ELSE "none",
                    !.stop_seen = FALSE, !.replayed = TRUE]
    /\ UNCHANGED <<variant, sigopt, config, procs, handles, live, wcfg, wstate, max_retries,
                   attempt, sleeps, restore_checkpoint_file, iteration, first_run,
                   restored, pre_experiment_result, ckpt, experiment, faults>>

(* ------------------------------- _train -------------------------------- *)
\* The experiment's stop condition (should_stop of the experiment class).
ExperimentShouldStop(st) == st.epoch >= Epochs

\* A poll that never asks to stop, and one that goes on when the poll fails.
ShouldStopNever(o, st) == FALSE
ShouldStopFailOpen(o, st) == IF o = "ok" THEN ExperimentShouldStop(st) ELSE FALSE

\* BaseTrainable._should_stop (lines 165-175) for a stop_status call that
\* ended o, "ok" or "died": the value of the call, or True on failure.
ShouldStop(o, st) == IF o = "ok" THEN ExperimentShouldStop(st) ELSE TRUE

\* The remote method run by _run_iteration (lines 302, 328).
UnitOp == IF variant = "continual" THEN "run_task" ELSE "run_epoch"

\* The values mean_accuracy takes in a result.
Accuracies == {0, 1}

\* experiment_class.aggregate_results / aggregate_pre_experiment_results.
AggregateResults(ps, acc) ==
    [mean_accuracy |-> acc, mean_loss |-> 0, extra_val_results |-> <<>>]
AggregatePreExperiment(ps) == [mean_accuracy |-> 0]

\* SupervisedTrainable._process_result (lines 308-312).
ProcessResult(result, pre) ==
    IF pre # NoPre
    THEN [result EXCEPT !.extra_val_results = <<(<<0, pre>>)>> \o @]
    ELSE result

\* A test that takes the last two iterations for final.
IsFinalIterationEarly(it, epochs) == it >= epochs - 2

\* if self.iteration >= self.epochs - 1 (line 396).
IsFinalIteration(it, epochs) == it >= epochs - 1

\* A result marked only when mean_accuracy is positive too.
SigOptResultMarksOnlyReported(result) ==
    IF sigopt.active
    THEN Put(result, "early_stop",
             IF IsFinalIteration(iteration, sigopt.epochs)
                    /\ result.mean_accuracy > 0
             THEN 1 ELSE Get(result, "early_stop", 0))
    ELSE result

\* SigOptSupervisedTrainable._process_result (lines 394-397): early_stop.
SigOptResult(result) ==
    IF sigopt.active
    THEN Put(result, "early_stop",
             IF IsFinalIteration(iteration, sigopt.epochs)
             THEN 1 ELSE Get(result, "early_stop", 0))
    ELSE result

\* Whether _process_result reports to the tuning service (lines 394-398).
ReportsObservation(result) ==
    /\ sigopt.active
    /\ IsFinalIteration(iteration, sigopt.epochs)
    /\ result.mean_accuracy > 0

\* result[name] raises KeyError for a metric the result does not have
\* (line 403).
MissingMetric(result) ==
    \E k \in 1..Len(sigopt.metric_names) : sigopt.metric_names[k] \notin DOMAIN result

\* The values passed to update_observation (lines 402-405).
ObservationValues(result) ==
    [k \in 1..Len(sigopt.metric_names) |->
        [name |-> sigopt.metric_names[k], value |-> result[sigopt.metric_names[k]]]]

\* self.sigopt after _process_result (line 406).
Observed(result) ==
    IF ReportsObservation(result)
    THEN [sigopt EXCEPT !.observations =
            Append(@, [suggestion |-> sigopt.suggestion,
                       values |-> ObservationValues(result)])]
    ELSE sigopt

\* The record returned when a restored checkpoint already fulfils the stop
\* criteria (lines 118-122).
DuplicateResult == [duplicate |-> TRUE, done |-> TRUE]

\* A record returned without the stop flag.
WithDoneMissing(result, stop) == result

\* ret[DONE] = self._should_stop() (line 153).
WithDone(result, stop) == Put(result, "done", stop)

StepHist(h) ==
    [h EXCEPT !.rt = "none", !.snap_states = <<>>, !.snap_iter = 0,
              !.restore = "none", !.blob = NoState, !.iter0 = 0,
              !.disp_pre = 0, !.disp_unit = 0,
              !.unit_failed = {}, !.stop_before = h.stop_seen,
              !.stepped = TRUE, !.was_first = first_run, !.poll = "none",
              !.reported = FALSE,
              !.pre_stop = /\ first_run /\ restored /\ procs # <<>>
                           /\ procs[1] \in live
                           /\ ExperimentShouldStop(wstate[procs[1]])]

\* A handler that kills the pool and goes back to the retry loop of
\* _create_workers.
StepRaisesAndRecreates(error) ==
    /\ KillWorkers
    /\ pc' = "create"
    /\ ret' = Raised("step", error)

\* The message of an exception that leaves _train: err_msg for the
\* RuntimeError _train raises itself (lines 157-160), none of the driver's
\* for an exception raised by a call it made.
StepMsg(error) ==
    IF error = "RuntimeError" THEN TrainErrMsg(iteration) ELSE NoMsg

\* except Exception: self._kill_workers(); raise (lines 161-163).
StepRaises(error) ==
    /\ KillWorkers
    /\ pc' = "ready"
    /\ ret' = RaisedWith("step", error, StepMsg(error))

\* A flag that is never cleared.
ConsumeFirstRunNever(fr) == fr

\* if self._first_run: self._first_run = False (lines 112-113).
ConsumeFirstRun(fr) == IF fr THEN FALSE ELSE fr

\* A pre-experiment step run on every first run.
RunsPreExperimentOnFirstRun == first_run

\* Whether _train runs the pre-experiment step (lines 112, 127).
RunsPreExperiment == first_run /\ iteration = 0

\* _train from its start to the first batch of calls it waits for, or to its
\* return (lines 107-130, 140, 300-302).
TrainDispatch ==
    IF RunsPreExperiment
    THEN /\ queue' = Submitted(queue, procs, "pre_experiment", NoState)
         /\ reply' = Awaiting(reply, procs)
         /\ pc' = "wait_pre"
         /\ hist' = [StepHist(hist) EXCEPT !.disp_pre = Len(procs),
                                           !.pre_total = UpTo2(@)]
    ELSE /\ queue' = Submitted(queue, procs, UnitOp, NoState)
         /\ reply' = Awaiting(reply, procs)
         /\ pc' = "wait_unit"
         /\ hist' = [StepHist(hist) EXCEPT !.disp_unit = Len(procs)]

TrainStart ==
    /\ pc = "ready"
    /\ variant \in PoolVariants
    /\ iteration < MaxIter \/ first_run
    /\ Len(sigopt.observations) < MaxObs
    /\ first_run' = ConsumeFirstRun(first_run)
    /\ pre_experiment_result' = NoPre
    /\ IF first_run /\ restored
       THEN IF procs = <<>>
            THEN /\ StepRaises("IndexError")
                 /\ hist' = [StepHist(hist) EXCEPT !.step_raised = TRUE]
                 /\ UNCHANGED <<reply, faults>>
            ELSE \E o \in CallOutcomes(procs[1]) :
                   /\ faults' = FaultsAfter(procs[1], o)
                   /\ IF o = "raised"
                      THEN /\ StepRaises("RayTaskError")
                           /\ hist' = [StepHist(hist) EXCEPT !.step_raised = TRUE,
                                                             !.poll = "raised"]
                           /\ UNCHANGED reply
                      ELSE IF ShouldStop(o, wstate[procs[1]])
                      THEN /\ ret' = Returned("step", DuplicateResult)
                           /\ pc' = "ready"
                           /\ live' = LiveAfter(procs[1], o)
                           /\ hist' = [StepHist(hist) EXCEPT
                                          !.stop_seen = @ \/ o = "ok",
                                          !.poll = o, !.dups = UpTo2(@)]
                           /\ UNCHANGED <<procs, queue, reply>>
                      ELSE /\ TrainDispatch
                           /\ ret' = NoRet
                           /\ UNCHANGED <<procs, live>>
       ELSE /\ TrainDispatch
            /\ ret' = NoRet
            /\ UNCHANGED <<procs, live, faults>>
    /\ UNCHANGED <<variant, sigopt, config, handles, wcfg, wstate, max_retries, attempt, sleeps,
                   restore_checkpoint_file, iteration, restored, ckpt, experiment>>

\* A check under which a dead actor fails the step at once.
PreCheckStrict(ps) ==
    { IF r = "false" THEN "raise" ELSE r : r \in CheckForFailure(ps) }

\* What check_for_failure over the pre-experiment calls lets _train see
\* (line 133).
PreCheck(ps) == CheckForFailure(ps)

\* _train from the check of the pre-experiment calls to the submission of
\* the work units (lines 132-140, 300-302).
PreCollect ==
    /\ pc = "wait_pre"
    /\ \E r \in PreCheck(procs) :
          IF r = "raise"
          THEN /\ StepRaises("RayTaskError")
               /\ hist' = [hist EXCEPT !.step_raised = TRUE]
               /\ UNCHANGED <<reply, pre_experiment_result>>
          ELSE /\ pre_experiment_result' =
                     IF r = "true" THEN AggregatePreExperiment(procs) ELSE NoPre
               /\ queue' = Submitted(queue, procs, UnitOp, NoState)
               /\ reply' = Awaiting(reply, procs)
               /\ pc' = "wait_unit"
               /\ hist' = [hist EXCEPT !.disp_unit = Len(procs)]
               /\ UNCHANGED <<procs, live, ret>>
    /\ UNCHANGED <<variant, sigopt, config, handles, wcfg, wstate, max_retries, attempt, sleeps,
                   restore_checkpoint_file, iteration, first_run, restored, ckpt,
                   experiment, faults>>

\* A check that inspects the first call of the batch only.
UnitCheckFirstOnly(ps) ==
    IF ps = <<>> THEN {"true"} ELSE CheckForFailure(<<ps[1]>>)

\* What check_for_failure over the work-unit calls lets _run_iteration see
\* (lines 305, 331).
UnitCheck(ps) == CheckForFailure(ps)

\* _train from the check of the work-unit calls to its end (lines 140-163,
\* 304-306).  A record that is returned passes through ray's Trainable.train,
\* which counts the iteration.
UnitCollect ==
    /\ pc = "wait_unit"
    /\ \E r \in UnitCheck(procs) :
          CASE r = "raise" ->
                  /\ StepRaises("RayTaskError")
                  /\ hist' = [hist EXCEPT !.step_raised = TRUE]
                  /\ UNCHANGED <<iteration, faults, sigopt>>
            [] r = "false" ->
                  /\ StepRaises("RuntimeError")
                  /\ hist' = [hist EXCEPT !.step_raised = TRUE]
                  /\ UNCHANGED <<iteration, faults, sigopt>>
            [] r = "true" ->
                  IF procs = <<>>
                  THEN /\ StepRaises("IndexError")
                       /\ hist' = [hist EXCEPT !.step_raised = TRUE]
                       /\ UNCHANGED <<iteration, faults, sigopt>>
                  ELSE \E acc \in Accuracies :
                       LET result == ProcessResult(AggregateResults(procs, acc),
                                                   pre_experiment_result)
                       IN
                       IF ReportsObservation(result) /\ MissingMetric(result)
                       THEN /\ StepRaises("KeyError")
                            /\ hist' = [hist EXCEPT !.step_raised = TRUE]
                            /\ UNCHANGED <<iteration, faults, sigopt>>
                       ELSE
                       \E o \in CallOutcomes(procs[1]) :
                         /\ sigopt' = Observed(result)
                         /\ faults' = FaultsAfter(procs[1], o)
                         /\ IF o = "raised"
                            THEN /\ StepRaises("RayTaskError")
                                 /\ hist' = [hist EXCEPT
                                      !.step_raised = TRUE,
                                      !.poll = "raised",
                                      !.reported = sigopt' # sigopt]
                                 /\ UNCHANGED iteration
                            ELSE /\ ret' = Returned("step",
                                       WithDone(SigOptResult(result),
                                                ShouldStop(o, wstate[procs[1]])))
                                 /\ iteration' = iteration + 1
                                 /\ pc' = "ready"
                                 /\ live' = LiveAfter(procs[1], o)
                                 /\ hist' = [hist EXCEPT
                                      !.poll = o,
                                      !.reported = sigopt' # sigopt,
                                      !.stop_seen =
                                      @ \/ (o = "ok" /\ ExperimentShouldStop(wstate[procs[1]]))]
                                 /\ UNCHANGED <<procs, queue>>
    /\ UNCHANGED <<variant, config, handles, wcfg, wstate, reply, max_retries, attempt,
                   sleeps, restore_checkpoint_file, first_run, restored,
                   pre_experiment_result, ckpt, experiment>>

(* -------------------------------- _stop -------------------------------- *)
\* BaseTrainable._stop up to the submission of the stop calls (line 270).
Stop ==
    /\ pc = "ready"
    /\ variant \in PoolVariants
    /\ queue' = Submitted(queue, procs, "stop_experiment", NoState)
    /\ reply' = Awaiting(reply, procs)
    /\ pc' = "wait_stop"
    /\ ret' = NoRet
    /\ hist' = [IdleHist(hist) EXCEPT
                    !.rt = "none", !.snap_states = <<>>, !.snap_iter = 0,
                    !.restore = "none", !.blob = NoState, !.iter0 = 0]
    /\ UNCHANGED <<variant, sigopt, config, procs, handles, live, wcfg, wstate, max_retries,
                   attempt, sleeps, restore_checkpoint_file, iteration, first_run,
                   restored, pre_experiment_result, ckpt, experiment, faults>>

\* _stop from ray.get(status) on (lines 272-278): RayActorError is caught,
\* any other exception leaves _stop.
StopCollect ==
    /\ pc = "wait_stop"
    /\ AllReplied(procs)
    /\ pc' = "stopped"
    /\ CASE FirstFailure(procs) = "ok" ->
              /\ live' = live \ Range(procs)
              /\ procs' = <<>>
              /\ ret' = Returned("stop", EmptyDict)
              /\ UNCHANGED queue
         [] FirstFailure(procs) = "died" ->
              /\ KillWorkers
              /\ ret' = Returned("stop", EmptyDict)
         [] FirstFailure(procs) = "raised" ->
              /\ ret' = Raised("stop", "RayTaskError")
              /\ UNCHANGED <<procs, live, queue>>
    /\ UNCHANGED <<variant, sigopt, config, handles, wcfg, wstate, reply, max_retries, attempt,
                   sleeps, restore_checkpoint_file, iteration, first_run, restored,
                   pre_experiment_result, ckpt, experiment, faults, hist>>

(* --------------------------- DebugTrainable ---------------------------- *)
\* The record run_task of the experiment returns.
RunTaskResult(st) == [mean_accuracy |-> 1, extra_val_results |-> <<>>]

\* DebugTrainable._setup (lines 417-420).
DebugSetup ==
    /\ pc = "new"
    /\ variant = "debug"
    /\ experiment' = FreshState
    /\ pc' = "ready"
    /\ ret' = Returned("setup", EmptyDict)
    /\ UNCHANGED <<variant, sigopt, config, procs, handles, live, wcfg, wstate, queue, reply,
                   max_retries, attempt, sleeps, restore_checkpoint_file, iteration,
                   first_run, restored, pre_experiment_result, ckpt, faults, hist>>

\* The record DebugTrainable._train returns (lines 423-427).
DebugRecord(st) == RunTaskResult(st)

\* DebugTrainable._train (lines 422-427).
DebugTrain ==
    /\ pc = "ready"
    /\ variant = "debug"
    /\ iteration < MaxIter
    /\ experiment' = [experiment EXCEPT !.epoch = @ + 1]
    /\ ret' = Returned("step", DebugRecord(experiment))
    /\ iteration' = iteration + 1
    /\ UNCHANGED <<variant, sigopt, config, pc, procs, handles, live, wcfg, wstate, queue,
                   reply, max_retries, attempt, sleeps, restore_checkpoint_file,
                   first_run, restored, pre_experiment_result, ckpt, faults, hist>>

\* A _save that returns the state of the experiment.
DebugSaveGetsState ==
    /\ pc = "ready"
    /\ variant = "debug"
    /\ ret' = Returned("checkpoint", GetState(experiment))
    /\ UNCHANGED <<variant, sigopt, config, pc, procs, handles, live, wcfg, wstate, queue,
                   reply, max_retries, attempt, sleeps, restore_checkpoint_file,
                   iteration, first_run, restored, pre_experiment_result, ckpt,
                   experiment, faults, hist>>

\* DebugTrainable._save (lines 429-430) returns dict().
DebugSave ==
    /\ pc = "ready"
    /\ variant = "debug"
    /\ ret' = Returned("checkpoint", EmptyDict)
    /\ UNCHANGED <<variant, sigopt, config, pc, procs, handles, live, wcfg, wstate, queue,
                   reply, max_retries, attempt, sleeps, restore_checkpoint_file,
                   iteration, first_run, restored, pre_experiment_result, ckpt,
                   experiment, faults, hist>>

\* DebugTrainable._restore (lines 432-433) is a no-op.
DebugRestore ==
    /\ pc = "ready"
    /\ variant = "debug"
    /\ ret' = Returned("restore", EmptyDict)
    /\ UNCHANGED <<variant, sigopt, config, pc, procs, handles, live, wcfg, wstate, queue,
                   reply, max_retries, attempt, sleeps, restore_checkpoint_file,
                   iteration, first_run, restored, pre_experiment_result, ckpt,
                   experiment, faults, hist>>

(* ---------------------------- specification ---------------------------- *)
Next ==
    \/ Setup
    \/ CreateAttempt
    \/ \E h \in 1..handles : WorkerRun(h)
    \/ CollectSetup
    \/ PostCreate
    \/ RestoreCollect
    \/ Save
    \/ Restore
    \/ TrainStart
    \/ PreCollect
    \/ UnitCollect
    \/ Stop
    \/ StopCollect
    \/ DebugSetup
    \/ DebugTrain
    \/ DebugSave
    \/ DebugRestore

\* The driver's operations, over the configurations whose pool is sized by
\* num_cpus and built without retries, and that do not ask both for a
\* restore and for a checkpoint at init.
RunConfigs ==
    {c \in Configs : /\ c.num_gpus = 0
                     /\ Get(c, "max_retries", DefaultMaxRetries) = 0
                     /\ {"restore_checkpoint_file", "checkpoint_at_init"}
                            \ DOMAIN c # {}}

\* Tuned trials start from the configurations without optional entries.
TunedRunConfigs == RunConfigs \cap BaseConfigs

Init == InitWith(RunConfigs, TunedRunConfigs)

Spec == Init /\ [][Next]_vars

\* _setup alone, over every configuration.
NextSetup ==
    \/ Setup
    \/ CreateAttempt
    \/ \E h \in 1..handles : WorkerRun(h)
    \/ CollectSetup
    \/ PostCreate
    \/ RestoreCollect
    \/ DebugSetup

InitSetup == InitWith(Configs, Configs)

SpecSetup == InitSetup /\ [][NextSetup]_vars

(* ------------------------------ properties ----------------------------- *)
\* The world size a configuration asks for: num_gpus when positive, else
\* num_cpus.
ExpectedWorld ==
    IF config.num_gpus > 0 THEN config.num_gpus ELSE config.num_cpus

\* The backoff durations 1, 2, 4, ..., 2^(k-1).
Doubling(k) == [j \in 1..k |-> Pow2(j - 1)]

\* _create_workers ended with an exception.
CreateRaised == ret.op = "create_workers" /\ ret.status = "raised"

\* C1: when _create_workers returns, self.procs holds exactly world_size
\* distinct handles and every one of them was sent a setup configuration
\* with the same dist_url.
C1_PoolSizeAndSharedUrl ==
    pc = "created" =>
        /\ Len(procs) = ExpectedWorld
        /\ Cardinality(Range(procs)) = ExpectedWorld
        /\ \A k \in 1..Len(procs) :
              /\ "dist_url" \in DOMAIN wcfg[procs[k]]
              /\ wcfg[procs[k]].dist_url = wcfg[procs[1]].dist_url

C1_Witness ==
    /\ pc = "created"
    /\ config.num_gpus = MaxWorld
    /\ Len(procs) = MaxWorld
    /\ hist.failed > 0

\* C2: when _create_workers returns after k failed passes, exactly k sleeps
\* were taken, of 1, 2, 4, ..., 2^(k-1) seconds in that order, and the pool
\* has world_size handles.
C2_BackoffSequence ==
    pc = "created" =>
        /\ hist.failed < max_retries + 1
        /\ sleeps = Doubling(hist.failed)
        /\ Len(procs) = ExpectedWorld

C2_Witness ==
    /\ pc = "created"
    /\ hist.failed = 2
    /\ sleeps = <<1, 2>>

\* C3: when every one of the max_retries + 1 passes has failed and
\* _create_workers raises, self.procs is empty and no actor is left running.
C3_ExhaustedLeavesNoHandles ==
    (CreateRaised /\ hist.failed = max_retries + 1) =>
        (procs = <<>> /\ live = {})

\* C4: a failure of a pass (the head's address query or a setup call, by a
\* dead actor or by an exception of the method) never leaves
\* _create_workers while passes remain, and never leaves actors running.
C4_FailuresAreRetried ==
    CreateRaised =>
        /\ hist.failed = max_retries + 1
        /\ ret.error = "RuntimeError"
        /\ procs = <<>>
        /\ live = {}

\* The last driver call was a step that returned a record / that raised.
StepReturned == pc = "ready" /\ ret.op = "step" /\ ret.status = "returned"
StepRaised == pc = "ready" /\ ret.op = "step" /\ ret.status = "raised"

\* C5: once the work-unit call of any worker of the pool has failed, the
\* step does not return a record: it raises, and self.procs is empty then.
C5_WorkerFailureKillsPool ==
    (ret.op \in {"step", "none"} /\ hist.unit_failed # {}) =>
        /\ ~StepReturned
        /\ pc = "ready" => (StepRaised /\ procs = <<>> /\ live = {})

C5_Witness ==
    /\ StepRaised
    /\ hist.unit_failed = {2}
    /\ hist.disp_unit = 2
    /\ procs = <<>>

\* C6: the first step of a restored driver whose head experiment's stop
\* condition holds submits no pre-experiment and no work-unit call, and the
\* record it returns is {duplicate: True, done: True}.
C6_RestoredAndStoppedIsDuplicate ==
    hist.pre_stop =>
        /\ hist.disp_pre = 0
        /\ hist.disp_unit = 0
        /\ pc \notin {"wait_pre", "wait_unit"}
        /\ StepReturned => ret.rec = [duplicate |-> TRUE, done |-> TRUE]
        /\ StepRaised => ret.error = "RayTaskError"

C6_Witness ==
    /\ StepReturned
    /\ hist.pre_stop
    /\ ret.rec = [duplicate |-> TRUE, done |-> TRUE]
    /\ \A k \in 1..Len(procs) : queue[procs[k]] = <<>>
    /\ Len(procs) = 2

C8_RestoreBroadcasts ==
    /\ pc \in {"wait_restore", "wait_restore_init"} => iteration = hist.iter0
    /\ (pc = "ready" /\ hist.restore = "done") =>
          /\ \A k \in 1..Len(procs) : wstate[procs[k]] = hist.blob
          /\ iteration = wstate[procs[1]].epoch
          /\ iteration = hist.blob.epoch

C8_Witness ==
    /\ pc = "ready"
    /\ hist.restore = "done"
    /\ ret.op = "restore"
    /\ Len(procs) = 2
    /\ hist.iter0 # iteration

\* C9: a step that began after the head's should_stop had returned True
\* (no _restore since) returns, when it returns, a record with done = True.
C9_StopIsMonotonic ==
    (StepReturned /\ hist.stop_before) => ret.rec.done = TRUE

C9_Witness ==
    /\ StepReturned
    /\ hist.stop_before
    /\ "duplicate" \notin DOMAIN ret.rec
    /\ ret.rec.done = TRUE

\* C10, as claimed: every record a step returns, on any variant, holds the
\* stop flag.
C10_EveryRecordHasDone ==
    StepReturned => "done" \in DOMAIN ret.rec

\* C10, amended: every record a step of a pool variant returns holds the
\* stop flag; the debug variant returns the record of run_task as it is.
C10_PoolRecordsHaveDone ==
    /\ (StepReturned /\ variant \in PoolVariants) => "done" \in DOMAIN ret.rec
    /\ (StepReturned /\ variant = "debug") => ret.rec = RunTaskResult(experiment)

C10_Witness ==
    /\ StepReturned
    /\ variant \in PoolVariants
    /\ "duplicate" \notin DOMAIN ret.rec
    /\ ret.rec.done = FALSE

\* _stop has ended, by returning or by an exception.
StopEnded == pc = "stopped"

\* C11: _stop never raises and leaves self.procs empty, with no actor of the
\* pool left running, whether the stop calls succeeded or failed.
C11_StopNeverRaises ==
    StopEnded =>
        /\ ret = Returned("stop", EmptyDict)
        /\ procs = <<>>
        /\ live = {}

\* C12: once a step has raised, self.procs stays empty, no handle is created,
\* no call is submitted to any actor, and every later step raises too.
C12_FailedIsAbsorbing ==
    [][hist.step_raised =>
          /\ hist'.step_raised
          /\ procs' = <<>>
          /\ handles' = handles
          /\ queue' = queue
          /\ ~StepReturned'
          /\ (pc = "wait_unit" /\ pc' = "ready") => StepRaised']_vars

C12_Witness ==
    /\ StepRaised
    /\ hist.step_raised
    /\ ~hist.was_first
    /\ ret.error = "IndexError"
    /\ procs = <<>>

\* The work-unit calls submitted to handle h that it has not begun.  Every
\* batch submits one work unit to every handle of the pool, so the units two
\* handles of the pool have begun differ by as much as these numbers do.
UnitsPending(h) ==
    Cardinality({k \in 1..Len(queue[h]) : queue[h][k].op \in {"run_epoch", "run_task"}})

\* C13: a work unit is submitted to a handle only when the handle has begun
\* every work unit submitted to it before, so the numbers of work units begun
\* by two running actors of the pool differ by at most one.
C13_RoundSynchronization ==
    /\ \A h \in Range(procs) : UnitsPending(h) <= 1
    /\ \A a, b \in Range(procs) \cap live : UnitsPending(a) - UnitsPending(b) <= 1

C13_Witness ==
    /\ pc = "wait_unit"
    /\ iteration = 1
    /\ Len(procs) = 2
    /\ Range(procs) \subseteq live
    /\ UnitsPending(procs[1]) = 0
    /\ UnitsPending(procs[2]) = 1
    /\ wstate[procs[1]].epoch = wstate[procs[2]].epoch + 1

\* _setup has returned.
SetupReturned == pc = "ready" /\ ret.op = "setup" /\ ret.status = "returned"

\* C14: when _setup returns, self._first_run is set and exactly one of three
\* things was done: with a restore file the pool was restored to its state,
\* self._restored is set and no state was saved (whatever checkpoint_at_init
\* says); else with checkpoint_at_init the initial state was saved and
\* self._restored is not set; else nothing was saved or restored.
C14_SetupPaths ==
    SetupReturned /\ variant \in PoolVariants =>
        /\ first_run
        /\ CASE restore_checkpoint_file # NoState ->
                  /\ restored
                  /\ ckpt = NoState
                  /\ hist.restore = "done"
                  /\ \A k \in 1..Len(procs) : wstate[procs[k]] = restore_checkpoint_file
             [] restore_checkpoint_file = NoState
                    /\ Get(config, "checkpoint_at_init", FALSE) ->
                  /\ ~restored
                  /\ ckpt = FreshState
                  /\ hist.restore = "none"
             [] OTHER ->
                  /\ ~restored
                  /\ ckpt = NoState
                  /\ hist.restore = "none"

C14_Witness ==
    /\ SetupReturned
    /\ restore_checkpoint_file # NoState
    /\ Get(config, "checkpoint_at_init", FALSE)
    /\ restored
    /\ first_run
    /\ ckpt = NoState

\* A tuned trial that was set up and stepped, with no _restore in between,
\* until its configured iterations were done, the last one with a positive
\* mean_accuracy.
TrialRanToEnd ==
    /\ sigopt.active
    /\ ~hist.replayed
    /\ StepReturned
    /\ "duplicate" \notin DOMAIN ret.rec
    /\ iteration = sigopt.epochs
    /\ ret.rec.mean_accuracy > 0

\* C15: such a trial has sent exactly one observation, with one entry per
\* configured metric name, in the order of the configuration; no observation
\* is sent before the final iteration.
C15_OneObservation ==
    /\ TrialRanToEnd =>
          /\ Len(sigopt.observations) = 1
          /\ sigopt.observations[1].suggestion = NextSuggestion
          /\ Len(sigopt.observations[1].values) = Len(config.sigopt_config.metrics)
          /\ \A k \in 1..Len(config.sigopt_config.metrics) :
                sigopt.observations[1].values[k].name
                    = config.sigopt_config.metrics[k].name
    /\ (sigopt.active /\ ~hist.replayed /\ ~hist.step_raised
            /\ iteration < sigopt.epochs) => sigopt.observations = <<>>

C15_Witness ==
    /\ TrialRanToEnd
    /\ Len(config.sigopt_config.metrics) = 2
    /\ Len(sigopt.observations) = 1
    /\ Len(sigopt.observations[1].values) = 2
    /\ ret.rec.early_stop = 1
    /\ ret.rec.done

\* A tuning block without an experiment id, or whose metrics do not name
\* mean_accuracy.
Misconfigured ==
    /\ variant = "sigopt"
    /\ "sigopt_config" \in DOMAIN config
    /\ \/ "sigopt_experiment_id" \notin DOMAIN config
       \/ config.sigopt_experiment_id = NoValue
       \/ "metrics" \notin DOMAIN config.sigopt_config
       \/ \A k \in 1..Len(config.sigopt_config.metrics) :
              config.sigopt_config.metrics[k].name # "mean_accuracy"

\* C16: with such a block _setup fails with an AssertionError, and no handle
\* is ever created and no call reaches an actor.
C16_MisconfigurationFailsFast ==
    Misconfigured =>
        /\ pc \in {"new", "setup_raised"}
        /\ handles = 0
        /\ procs = <<>>
        /\ queue = <<>>
        /\ pc = "setup_raised" => ret = Raised("process_config", "AssertionError")

C16_Witness ==
    /\ Misconfigured
    /\ pc = "setup_raised"
    /\ Get(config, "sigopt_experiment_id", NoValue) = "exp1"
    /\ Get(config, "suggested", NoValue) = NextSuggestion
    /\ "metrics" \in DOMAIN config.sigopt_config
    /\ handles = 0
    /\ procs = <<>>

\* C17: the debug variant has no handle and no pool at any time; its _setup
\* builds the one in-process experiment, every step runs one task on it and
\* returns, _save returns an empty mapping and leaves the experiment alone,
\* and _restore changes nothing.
C17_DebugHasNoPool ==
    [][variant = "debug" =>
          /\ handles' = 0
          /\ procs' = <<>>
          /\ live' = {}
          /\ queue' = <<>>
          /\ pc = "new" => (experiment' = FreshState /\ pc' = "ready")
          /\ (pc = "ready" /\ ret'.op = "step") =>
                /\ ret'.status = "returned"
                /\ experiment'.epoch = experiment.epoch + 1
          /\ (pc = "ready" /\ ret'.op = "checkpoint") =>
                /\ ret' = Returned("checkpoint", EmptyDict)
                /\ experiment' = experiment
                /\ iteration' = iteration
          /\ (pc = "ready" /\ ret'.op = "restore") =>
                /\ ret'.status = "returned"
                /\ experiment' = experiment
                /\ iteration' = iteration]_vars

C17_Witness ==
    /\ variant = "debug"
    /\ ret.op = "restore"
    /\ iteration = 2
    /\ experiment.epoch = 2
    /\ handles = 0

\* C18: a step whose work units all succeeded and whose stop poll hit a dead
\* head actor returns its record, with done = True, whatever the head
\* experiment's stop condition was.
C18_FailedPollStops ==
    /\ (StepReturned /\ hist.poll = "died") => ret.rec.done = TRUE
    /\ (pc = "ready" /\ ret.op = "step" /\ hist.poll = "died") => StepReturned

C18_Witness ==
    /\ StepReturned
    /\ hist.poll = "died"
    /\ hist.disp_unit = 2
    /\ hist.unit_failed = {}
    /\ "duplicate" \notin DOMAIN ret.rec
    /\ ~ExperimentShouldStop(wstate[procs[1]])
    /\ ret.rec.done = TRUE

\* A step is waiting for the calls it submitted.
StepInProgress == pc \in {"wait_pre", "wait_unit"}

\* C19: pre-experiment calls are submitted at most once on a driver; a step
\* that goes on to its work units has submitted them exactly when it is the
\* first step and self._iteration is 0, and then to every handle of the pool.
C19_PreExperimentOnce ==
    /\ hist.pre_total <= 1
    /\ hist.disp_pre > 0 => hist.was_first
    /\ StepInProgress =>
          /\ hist.disp_pre > 0 <=> (hist.was_first /\ iteration = 0)
          /\ hist.disp_pre \in {0, Len(procs)}
    /\ pc = "wait_pre" =>
          \A k \in 1..Len(procs) :
             /\ reply[procs[k]] # "none"
             /\ reply[procs[k]] = "pending" =>
                   /\ queue[procs[k]] # <<>>
                   /\ queue[procs[k]][Len(queue[procs[k]])].op = "pre_experiment"

C19_Witness ==
    /\ pc = "wait_pre"
    /\ restored
    /\ iteration = 0
    /\ Len(procs) = 2
    /\ hist.pre_total = 1
    /\ \A k \in 1..2 : reply[procs[k]] = "pending"

\* _setup has returned on a pool variant.
SetupDone ==
    /\ variant \in PoolVariants
    /\ pc \in {"ready", "wait_pre", "wait_unit", "wait_restore", "wait_stop", "stopped"}

\* C20: self._first_run is set exactly from the return of _setup to the
\* beginning of the first step, whatever that step and later calls do; the
\* duplicate record is returned by the first step only, so at most once.
C20_FirstRunConsumedOnce ==
    /\ first_run <=> (SetupDone /\ ~hist.stepped)
    /\ hist.dups <= 1
    /\ (StepReturned /\ "duplicate" \in DOMAIN ret.rec) => hist.was_first

C20_Witness ==
    /\ StepReturned
    /\ "duplicate" \notin DOMAIN ret.rec
    /\ restored
    /\ hist.dups = 1
    /\ ~hist.was_first
    /\ ~first_run
    /\ ExperimentShouldStop(wstate[procs[1]])

\* The handles that were sent a setup configuration, in any pass.
Configured == { h \in 1..handles : wcfg[h] # NoCfg }

\* C21: in every pass of the retry loop the configurations sent to the
\* workers have distributed = True and world_size equal to the length of the
\* pool, the handle at pool index i (from 0) has rank i, so the ranks of a
\* pass are exactly 0..world_size-1, and the dist_url holds the address of
\* the handle of rank 0.
C21_RanksAndWorldSize ==
    /\ \A h \in Configured :
          /\ wcfg[h].distributed = TRUE
          /\ wcfg[h].world_size = ExpectedWorld
          /\ wcfg[h].rank = (h - 1) % ExpectedWorld
          /\ h - wcfg[h].rank \in Configured
          /\ wcfg[h].dist_url[2] = h - wcfg[h].rank
    /\ \A k \in 1..Len(procs) :
          wcfg[procs[k]] # NoCfg =>
             /\ wcfg[procs[k]].rank = k - 1
             /\ wcfg[procs[k]].world_size = Len(procs)
    /\ pc \in {"wait_setup", "created"} =>
          { wcfg[procs[k]].rank : k \in 1..Len(procs) } = 0..(Len(procs) - 1)

C21_Witness ==
    /\ pc = "created"
    /\ Len(procs) = MaxWorld
    /\ hist.failed > 0
    /\ wcfg[procs[MaxWorld]].rank = MaxWorld - 1
    /\ wcfg[procs[1]].rank = 0
    /\ wcfg[1].rank = 0

\* The entries _create_workers adds to a worker's configuration.
PerWorkerKeys == {"rank", "world_size", "dist_url", "distributed"}

\* A configuration without the per-worker entries.
Shared(c) == [k \in DOMAIN c \ PerWorkerKeys |-> c[k]]

\* C22: in every pass of the retry loop the driver's config has none of the
\* per-worker entries, each worker's configuration is the driver's config
\* plus those entries, and the rank written for one worker of a pool is not
\* the rank any other worker of that pool received.
C22_SharedConfigUntouched ==
    /\ PerWorkerKeys \cap DOMAIN config = {}
    /\ \A h \in Configured :
          /\ PerWorkerKeys \subseteq DOMAIN wcfg[h]
          /\ Shared(wcfg[h]) = config
    /\ \A j, k \in 1..Len(procs) :
          (j # k /\ wcfg[procs[j]] # NoCfg /\ wcfg[procs[k]] # NoCfg)
             => wcfg[procs[j]].rank # wcfg[procs[k]].rank

C22_Witness ==
    /\ pc = "wait_setup"
    /\ attempt = 1
    /\ Len(procs) = MaxWorld
    /\ Cardinality(Configured) = 2 * MaxWorld
    /\ "restore_checkpoint_file" \notin DOMAIN config
    /\ config.logdir = "logdir"

\* C23: once _setup has returned, no call creates a worker handle, begins a
\* pass of the retry loop of _create_workers or sleeps a backoff, and the
\* pool either keeps its handles or becomes empty.
C23_NoRecoveryAfterSetup ==
    [][SetupDone =>
          /\ SetupDone'
          /\ handles' = handles
          /\ attempt' = attempt
          /\ sleeps' = sleeps
          /\ procs' \in {procs, <<>>}]_vars

C23_Witness ==
    /\ SetupDone
    /\ pc = "stopped"
    /\ hist.step_raised
    /\ procs = <<>>
    /\ handles = 2
    /\ live = {}
    /\ attempt = 0

\* The driver raised an exception it built itself (raise RuntimeError(err_msg),
\* lines 160 and 257).
DriverRaised == ret.status = "raised" /\ ret.error = "RuntimeError"

\* C24: every exception the driver builds itself, the worker-failure error of
\* a step and the retries-exhausted error of pool creation, has the trial
\* name in its message, and the retries-exhausted error also the retry count.
C24_FatalErrorsNameTrial ==
    DriverRaised =>
        /\ "trial" \in DOMAIN ret.msg
        /\ ret.msg.trial = TrialName
        /\ ret.op = "create_workers" =>
              ("retries" \in DOMAIN ret.msg /\ ret.msg.retries = max_retries)

\* max_retries as the configuration gives it, 3 when it gives none.
ConfiguredRetries ==
    IF "max_retries" \in DOMAIN config THEN config.max_retries ELSE 3

\* _create_workers has begun its retry loop and is not in the middle of
\* _process_config's failure.
CreateBegun ==
    /\ variant \in PoolVariants
    /\ pc # "new"
    /\ ~(pc = "create" /\ attempt = 0)
    /\ ret.op # "process_config"

\* C25: one _setup begins at least one pass of the retry loop and at most
\* max(max_retries, 0) + 1 passes, max_retries being 3 when not configured;
\* a negative or zero max_retries gives exactly one pass.
C25_AttemptBounds ==
    /\ hist.passes <= Max(ConfiguredRetries, 0) + 1
    /\ CreateBegun => hist.passes >= 1
    /\ (CreateBegun /\ ConfiguredRetries <= 0) => hist.passes = 1
    /\ (CreateRaised /\ ret.error = "RuntimeError") =>
          hist.passes = Max(ConfiguredRetries, 0) + 1

C25_Witness ==
    /\ "max_retries" \notin DOMAIN config
    /\ CreateRaised
    /\ ret.error = "RuntimeError"
    /\ hist.passes = 4
    /\ handles = 4 * MaxWorld

\* A step of a tuned trial has returned the record of a work unit;
\* self.iteration was iteration - 1 while _process_result ran.
TunedStepReturned ==
    /\ sigopt.active
    /\ StepReturned
    /\ "duplicate" \notin DOMAIN ret.rec

\* C26 as stated: the record of a tuned step has early_stop = 1.0 exactly when
\* an observation was reported for it, and that is exactly when the iteration
\* counter was >= epochs - 1 and mean_accuracy positive.
C26_MarkedIffReported ==
    TunedStepReturned =>
        /\ ret.rec.early_stop = 1 <=> hist.reported
        /\ hist.reported <=>
              (iteration - 1 >= sigopt.epochs - 1 /\ ret.rec.mean_accuracy > 0)

\* C26, amended: the record of a tuned step has early_stop = 1.0 exactly when
\* the iteration counter was >= epochs - 1, whatever mean_accuracy is, and
\* 0.0 otherwise; an observation is reported for it exactly when in addition
\* mean_accuracy is positive.
C26_MarkedWhenFinal ==
    TunedStepReturned =>
        /\ ret.rec.early_stop = 1 <=> iteration - 1 >= sigopt.epochs - 1
        /\ ret.rec.early_stop \in {0, 1}
        /\ hist.reported <=>
              (iteration - 1 >= sigopt.epochs - 1 /\ ret.rec.mean_accuracy > 0)
        /\ hist.reported => Len(sigopt.observations) > 0

C26_Witness ==
    /\ TunedStepReturned
    /\ iteration = sigopt.epochs
    /\ ret.rec.mean_accuracy = 0
    /\ ret.rec.early_stop = 1
    /\ ~hist.reported
    /\ sigopt.observations = <<>>

\* A tuning block whose metrics are absent or do not name mean_accuracy.
MetricsMisconfigured ==
    /\ variant = "sigopt"
    /\ "sigopt_config" \in DOMAIN config
    /\ \/ "metrics" \notin DOMAIN config.sigopt_config
       \/ \A k \in 1..Len(config.sigopt_config.metrics) :
              config.sigopt_config.metrics[k].name # "mean_accuracy"

\* C27: when the setup of a tuned trial fails because the metrics are absent
\* or do not name mean_accuracy, no suggestion has been requested and the
\* config has not been rewritten by one.
C27_ValidationPrecedesSuggestion ==
    (MetricsMisconfigured /\ pc = "setup_raised") =>
        /\ hist.suggested = 0
        /\ sigopt.suggestion = NoValue
        /\ "suggested" \notin DOMAIN config

\* C28: a tuned trial requests exactly one suggestion, before the first
\* handle is created, and the workers of every pass of the retry loop are
\* sent the config rewritten by that suggestion.
C28_OneSuggestionPerTrial ==
    /\ hist.suggested <= 1
    /\ (variant = "sigopt" /\ "sigopt_config" \in DOMAIN config /\ handles > 0) =>
          /\ hist.suggested = 1
          /\ sigopt.suggestion = NextSuggestion
          /\ \A h \in Configured :
                /\ "suggested" \in DOMAIN wcfg[h]
                /\ wcfg[h].suggested = sigopt.suggestion
    /\ ~(variant = "sigopt" /\ "sigopt_config" \in DOMAIN config) =>
          /\ hist.suggested = 0
          /\ \A h \in Configured : "suggested" \notin DOMAIN wcfg[h]

C28_Witness ==
    /\ variant = "sigopt"
    /\ pc = "created"
    /\ hist.failed = 2
    /\ hist.suggested = 1
    /\ Cardinality(Configured) = 3 * MaxWorld
    /\ \A h \in Configured : wcfg[h].suggested = NextSuggestion

\* The pre-experiment calls of a step are being left, some of them having
\* hit a dead actor and none having raised in its actor.
PreTransportFailure ==
    /\ pc = "wait_pre"
    /\ pc' # "wait_pre"
    /\ \E k \in 1..Len(procs) : reply[procs[k]] = "died"
    /\ \A k \in 1..Len(procs) : reply[procs[k]] # "raised"

\* C29: a dead actor among the pre-experiment calls does not end the step:
\* nothing is raised, the pre-experiment result stays None, the pool keeps
\* its handles, and the work unit is submitted to every handle of the pool.
C29_PreFailureGoesOn ==
    [][PreTransportFailure =>
          /\ pc' = "wait_unit"
          /\ ret' = ret
          /\ procs' = procs
          /\ pre_experiment_result' = NoPre
          /\ \A k \in 1..Len(procs) :
                /\ queue'[procs[k]] =
                      Append(queue[procs[k]], [op |-> UnitOp, arg |-> NoState])
                /\ reply'[procs[k]] = "pending"]_vars

C29_Witness ==
    /\ pc = "wait_unit"
    /\ Len(procs) = 2
    /\ hist.disp_pre = 2
    /\ hist.disp_unit = 2
    /\ pre_experiment_result = NoPre
    /\ procs[2] \notin live
    /\ \A k \in 1..2 : reply[procs[k]] = "pending"

\* _create_workers gave up after its last pass.
RetriesExhausted == CreateRaised /\ ret.error = "RuntimeError"

\* C30: when _create_workers gives up, every pass has failed and has been
\* followed by a sleep, the last one too: max_retries + 1 passes and as many
\* sleeps, of 1, 2, ..., 2^max_retries seconds in that order, and the pool
\* is empty.
C30_SleepAfterLastAttempt ==
    RetriesExhausted =>
        /\ hist.passes = max_retries + 1
        /\ hist.failed = hist.passes
        /\ Len(sleeps) = hist.passes
        /\ sleeps = Doubling(max_retries + 1)
        /\ sleeps[Len(sleeps)] = Pow2(max_retries)
        /\ procs = <<>>

C30_Witness ==
    /\ RetriesExhausted
    /\ max_retries = 2
    /\ hist.passes = 3
    /\ sleeps = <<1, 2, 4>>

====
